---- MODULE Spec2Model ----
(***************************************************************************)
(* State-machine model of the BERT training / inference drivers of         *)
(* bert/bert.py: the Iteration bookkeeping object, bert_process_data,      *)
(* bert_train_loop, save_model_and_stats, and the low-latency inference    *)
(* path (create_callback_stepio, compute_latency, bert_process_infer_data, *)
(* bert_infer_loop).                                                       *)
(*                                                                         *)
(* Conventions                                                             *)
(*   - a Python Optional is a sequence: <<>> is None, <<v>> is the value v *)
(*   - an array (numpy) is a sequence of integers                          *)
(*   - a float that is a quotient is the pair <<numerator, denominator>>   *)
(*     (<<n, 0>> is numpy's nan of a 0/0 mean)                             *)
(*   - np.average(window) written to the metrics sink is recorded as the   *)
(*     window it is taken over                                             *)
(***************************************************************************)
EXTENDS Integers, Sequences, FiniteSets, TLC

VARIABLES
    args,          \* the immutable options record (argparse namespace)
    dataset_len,   \* len(dataset): batches the dataset yields per epoch
    schedule,      \* optimizer_factory: the steps at which an update is due
    iteration,     \* the Iteration object
    pc,            \* position of the driver (train loop, infer loop or harness)
    batch_idx,     \* batches consumed from the dataset in the current epoch
    yielded,       \* batches the dataset has yielded in the whole run
    data,          \* the batch most recently yielded (<<>> before the first)
    calls,         \* calls made by the most recent bert_process_data invocation
    saves,         \* save_model_and_stats calls that reached session.modelToHost
    updates,       \* step counts at which session.updateOptimizer was called
    appended,      \* harness only: values handed to add_stats, per window
    start_times,   \* defaultdict(list): input id -> times it was prefetched
    end_times,     \* defaultdict(list): anchor id -> times it was filled
    clock,         \* time.perf_counter() readings taken in the current step
    latency,       \* what the most recent compute_latency call did
    realtime,      \* the process runs under the real-time scheduler
    writer,        \* (name, step) of every scalar written to the metrics sink
    stats_args,    \* arguments of a bert_output_stats call made on its own
    stats_result,  \* what that call returned (<<>> before it)
    config,        \* loader: the BertConfig of the target model
    tf_installed,  \* loader: `import tensorflow` succeeds
    is_checkpoint, \* loader: a checkpoint is read (else a frozen graph)
    checkpoint,    \* loader: the tensors of the file, in the file's order
    reads,         \* loader: tensors read from the file so far
    pending,       \* loader: zip(map_names, load_data) still to be processed
    initializers,  \* loader: the initializer dictionary being built
    logged,        \* loader: the records handed to the logger
    raised         \* loader: the exception that left the call, if any

trainVars == <<schedule, data, calls, saves, updates>>
inferVars == <<start_times, end_times, clock, latency, realtime>>

statsVars == <<stats_args, stats_result>>
loadVars == <<config, tf_installed, is_checkpoint, checkpoint, reads, pending,
              initializers, logged, raised>>

vars == <<args, dataset_len, schedule, iteration, pc, batch_idx, yielded,
          data, calls, saves, updates, appended,
          start_times, end_times, clock, latency, realtime,
          writer, stats_args, stats_result,
          config, tf_installed, is_checkpoint, checkpoint, reads, pending,
          initializers, logged, raised>>

----------------------------------------------------------------------------
(* Bounds of the model *)

\* largest args.epochs
MaxEpochs == 2
\* largest len(dataset)
MaxBatches == 2
\* add_stats calls made by the Iteration harness
MaxCalls == 5

----------------------------------------------------------------------------
(* Generic helpers *)

None == <<>>
Some(v) == <<v>>

RECURSIVE SumSeq(_)
SumSeq(s) == IF s = <<>> THEN 0 ELSE Head(s) + SumSeq(Tail(s))

Count(S) == Cardinality(S)

\* the last n elements of s
LastN(s, n) == IF Len(s) <= n THEN s ELSE SubSeq(s, Len(s) - n + 1, Len(s))

----------------------------------------------------------------------------
(* Inputs: option records, batches and engine outputs *)

DefaultArgs ==
    [task |-> "SQUAD",
     steps_per_save |-> 0,
     epochs_per_save |-> 0,
     no_model_save |-> FALSE,
     continue_training_from_epoch |-> 0,
     epochs |-> MaxEpochs,
     steps_per_log |-> 1,
     report_hw_cycle_count |-> FALSE,
     gc_profile |-> FALSE,
     aggregate_metrics_over_steps |-> Some(1),
     inference |-> FALSE,
     low_latency_inference |-> FALSE,
     batches_per_step |-> 1,
     realtime_scheduler |-> FALSE,
     synthetic_data |-> FALSE]

Tasks == {"PRETRAINING", "SQUAD"}

\* schedules of the optimizer factory: none, steps 0 and 2, step 1
Schedules == { <<>>, (0 :> 3) @@ (2 :> 1), (1 :> 2) }

\* runs that vary the save triggers and the shape of the loop
SaveConfigs ==
    {<< [DefaultArgs EXCEPT !.steps_per_save = n,
                            !.epochs_per_save = m,
                            !.no_model_save = ns,
                            !.continue_training_from_epoch = se,
                            !.epochs = e],
        len, <<>> >> :
        n \in {-1, 0, 1, 2}, m \in {-1, 0, 1, 2}, ns \in BOOLEAN,
        se \in {0, 1}, e \in 0..MaxEpochs, len \in 0..MaxBatches}

\* runs that vary the optimizer schedule
ScheduleConfigs ==
    {<< [DefaultArgs EXCEPT !.steps_per_save = 2], len, sched >> :
        len \in 0..MaxBatches, sched \in Schedules}

\* one-epoch runs that vary what a bert_process_data call does
CallConfigs ==
    {<< [DefaultArgs EXCEPT !.task = t,
                            !.epochs = 1,
                            !.steps_per_save = 2,
                            !.steps_per_log = sl,
                            !.report_hw_cycle_count = hw,
                            !.gc_profile = gc,
                            !.aggregate_metrics_over_steps = rs],
        MaxBatches, sched >> :
        t \in Tasks, sl \in {1, 2}, hw \in BOOLEAN, gc \in BOOLEAN,
        rs \in {None, Some(1)}, sched \in {<<>>, (1 :> 2)}}

TrainConfigs == SaveConfigs \cup ScheduleConfigs \cup CallConfigs

\* the label arrays of a batch: mask_labels [batch_size, mask_tokens] and
\* nsp_labels [batch_size] in PRETRAINING, start_labels and end_labels
\* [batch_size] in SQUAD, for batch_size 1 and mask_tokens 2
Batches(task) ==
    IF task = "PRETRAINING"
    THEN {[labels |-> <<m, n>>] : m \in {<<0, 0>>, <<0, 1>>},
                                  n \in {<<0>>, <<1>>, <<2>>}}
    ELSE {[labels |-> <<s, e>>] : s \in {<<0>>, <<1>>}, e \in {<<0>>, <<1>>}}

\* what session.run leaves behind: the time it took, the cycle count and the
\* loss and prediction anchors, shaped like the labels
EngineOutputs(task) ==
    IF task = "PRETRAINING"
    THEN {[duration |-> 1, cycles |-> 0,
           losses |-> << <<1, 1>>, <<1>> >>,
           predictions |-> << <<1, 1>>, <<1>> >>],
          [duration |-> 2, cycles |-> 3,
           losses |-> << <<2, 0>>, <<3>> >>,
           predictions |-> << <<0, 1>>, <<0>> >>]}
    ELSE {[duration |-> 1, cycles |-> 0,
           losses |-> << <<1>>, <<1>> >>,
           predictions |-> << <<1>>, <<1>> >>],
          [duration |-> 2, cycles |-> 3,
           losses |-> << <<2>>, <<3>> >>,
           predictions |-> << <<0>>, <<1>> >>]}

----------------------------------------------------------------------------
(* bert_output_stats / bert_pretraining_stats (bert.py 335-371) *)

\* padding mask of one label array: label != ignore_index, or all ones
PaddingMask(label, ignore_index) ==
    [p \in DOMAIN label |->
        IF ignore_index = None THEN TRUE ELSE label[p] # ignore_index[1]]

RECURSIVE SumOver(_, _)
\* sum of f[x] for x in S
SumOver(f, S) ==
    IF S = {} THEN 0
    ELSE LET x == CHOOSE y \in S : TRUE IN f[x] + SumOver(f, S \ {x})

RECURSIVE Factorial(_)
Factorial(n) == IF n <= 1 THEN 1 ELSE n * Factorial(n - 1)

\* num_losses = np.sum(padding_masks, axis=0), before master_mask is applied
NumLosses(labels, ignore_index) ==
    [p \in DOMAIN labels[1] |->
        Count({l \in DOMAIN labels : PaddingMask(labels[l], ignore_index)[p]})]

\* master_mask = num_losses != 0, as the set of retained positions
MasterMask(labels, ignore_index) ==
    {p \in DOMAIN labels[1] : NumLosses(labels, ignore_index)[p] # 0}

\* combined_loss after the masked losses are zeroed, before master_mask
CombinedLoss(labels, losses, ignore_index) ==
    [p \in DOMAIN labels[1] |->
        SumOver([l \in DOMAIN labels |->
                    IF PaddingMask(labels[l], ignore_index)[p]
                    THEN losses[l][p] ELSE 0],
                DOMAIN labels)]

\* step_loss = np.mean(combined_loss[master_mask] / num_losses[master_mask]),
\* as a quotient over the common denominator Factorial(#labels) * #retained
StepLoss(labels, losses, ignore_index) ==
    LET n == NumLosses(labels, ignore_index)
        c == CombinedLoss(labels, losses, ignore_index)
        keep == MasterMask(labels, ignore_index)
        k == Factorial(Len(labels))
    IN  << SumOver([p \in keep |-> c[p] * (k \div n[p])], keep),
           k * Count(keep) >>

\* total_correct: predictions equal to the label at unmasked positions
TotalCorrect(labels, predictions, ignore_index) ==
    SumOver([l \in DOMAIN labels |->
                Count({p \in DOMAIN labels[l] :
                          /\ PaddingMask(labels[l], ignore_index)[p]
                          /\ predictions[l][p] = labels[l][p]})],
            DOMAIN labels)

\* faulty variant: every (label, position) pair counted, masked or not
TotalAttempted_AllPairs(labels, ignore_index) ==
    Len(labels) * Len(labels[1])

\* total_attempted = np.sum(num_losses[master_mask])
TotalAttempted(labels, ignore_index) ==
    LET n == NumLosses(labels, ignore_index)
        keep == MasterMask(labels, ignore_index)
    IN  SumOver([p \in keep |-> n[p]], keep)

bert_output_stats(labels, losses, predictions, ignore_index) ==
    [loss     |-> StepLoss(labels, losses, ignore_index),
     accuracy |-> << TotalCorrect(labels, predictions, ignore_index),
                     TotalAttempted(labels, ignore_index) >>]

\* returns [mlm_loss, nsp_loss], [mlm_acc, nsp_acc]
bert_pretraining_stats(labels, losses, predictions) ==
    LET mlm == bert_output_stats(<<labels[1]>>, <<losses[1]>>,
                                 <<predictions[1]>>, Some(0))
        nsp == bert_output_stats(<<labels[2]>>, <<losses[2]>>,
                                 <<predictions[2]>>, Some(2))
    IN  [loss     |-> <<mlm.loss, nsp.loss>>,
         accuracy |-> <<mlm.accuracy, nsp.accuracy>>]

----------------------------------------------------------------------------
(* class Iteration (bert.py 388-477) *)

\* faulty variant: a full deque refuses the new entry instead of evicting the oldest
DequeAppend_KeepOldest(d, v, maxlen) ==
    IF Len(d) >= maxlen THEN d ELSE Append(d, v)

\* collections.deque(maxlen=n).append(v): the oldest entry leaves a full deque
DequeAppend(d, v, maxlen) ==
    IF maxlen = 0 THEN d
    ELSE IF Len(d) >= maxlen THEN Append(Tail(d), v)
    ELSE Append(d, v)

\* recording_steps, defaulting to steps_per_epoch
RecordingSteps(recording_steps, steps_per_epoch) ==
    IF recording_steps = None THEN steps_per_epoch ELSE recording_steps[1]

\* Iteration.__init__
IterationInit(a, steps_per_epoch, recording_steps) ==
    [start_epoch     |-> a.continue_training_from_epoch,
     count           |-> a.continue_training_from_epoch * steps_per_epoch,
     epoch           |-> 0,
     epochs          |-> a.epochs,
     epochs_per_save |-> a.epochs_per_save,
     steps_per_log   |-> a.steps_per_log,
     steps_per_epoch |-> steps_per_epoch,
     task            |-> a.task,
     learning_rate   |-> 0,
     maxlen          |-> RecordingSteps(recording_steps, steps_per_epoch),
     durations       |-> <<>>,
     cycles          |-> <<>>,
     mlm_losses      |-> <<>>,
     nsp_losses      |-> <<>>,
     mlm_accuracies  |-> <<>>,
     nsp_accuracies  |-> <<>>,
     losses          |-> <<>>,
     accuracies      |-> <<>>]

\* one call recorded in the trace of a handler
Call(op, name, value, step) ==
    [op |-> op, name |-> name, value |-> value, step |-> step]

\* faulty variant: the scalar keyed by the fill of its window, not by the count
AddScalar_KeyedByWindow(name, window, step) ==
    Call("add_scalar", name, window, Len(window))

\* writer.add_scalar(name, np.average(window), step)
AddScalar(name, window, step) == Call("add_scalar", name, window, step)

\* what the metrics sink keeps of a trace: the (name, step) of each scalar
ScalarKeys(trace) ==
    LET s == SelectSeq(trace, LAMBDA c : c.op = "add_scalar")
    IN  [i \in DOMAIN s |-> [name |-> s[i].name, step |-> s[i].step]]

\* the windows of an Iteration that its task mode creates
Windows(it) ==
    IF it.task = "PRETRAINING"
    THEN {"durations", "cycles", "mlm_losses", "nsp_losses",
          "mlm_accuracies", "nsp_accuracies"}
    ELSE {"durations", "cycles", "losses", "accuracies"}

\* Iteration.add_stats: the Iteration after the call and the scalars written
add_stats(it, duration, hw_cycles, labels, losses, predictions) ==
    LET mx == it.maxlen
        it1 == [it EXCEPT !.durations = DequeAppend(@, duration, mx)]
        it2 == IF hw_cycles # None /\ hw_cycles[1] # 0
               THEN [it1 EXCEPT !.cycles = DequeAppend(@, hw_cycles[1], mx)]
               ELSE it1
        lr  == AddScalar("defaultLearningRate", <<it.learning_rate>>, it.count)
    IN  IF it.task = "PRETRAINING"
        THEN LET st == bert_pretraining_stats(labels, losses, predictions)
                 it3 == [it2 EXCEPT
                           !.mlm_losses = DequeAppend(@, st.loss[1], mx),
                           !.nsp_losses = DequeAppend(@, st.loss[2], mx),
                           !.mlm_accuracies = DequeAppend(@, st.accuracy[1], mx),
                           !.nsp_accuracies = DequeAppend(@, st.accuracy[2], mx)]
             IN  [it |-> it3,
                  stats |-> st,
                  scalars |-> << lr,
                      AddScalar("loss/MLM", it3.mlm_losses, it.count),
                      AddScalar("loss/NSP", it3.nsp_losses, it.count),
                      AddScalar("accuracy/MLM", it3.mlm_accuracies, it.count),
                      AddScalar("accuracy/NSP", it3.nsp_accuracies, it.count) >>]
        ELSE LET st == bert_output_stats(labels, losses, predictions, None)
                 it3 == [it2 EXCEPT
                           !.losses = DequeAppend(@, st.loss, mx),
                           !.accuracies = DequeAppend(@, st.accuracy, mx)]
             IN  [it |-> it3,
                  stats |-> st,
                  scalars |-> << lr,
                      AddScalar("loss", it3.losses, it.count),
                      AddScalar("accuracy", it3.accuracies, it.count) >>]

\* Iteration.report_stats: one logger.info line, nothing else
report_stats(it) == << Call("report_stats", "", <<>>, it.count) >>

\* faulty variant: the report empties the window it has just averaged
AfterReport_ClearsWindows(it) == [it EXCEPT !.durations = <<>>]

\* the Iteration after report_stats: the method assigns no attribute
AfterReport(it) == it

----------------------------------------------------------------------------
(* ScheduledOptimizerFactory (bert_optimizer.py): a step-granularity schedule,
   a map from the scheduled steps to the learning rate set there *)

\* should_update(iteration): a pure query, true iff the count is scheduled
should_update(sched, it) == it.count \in DOMAIN sched

\* update_and_create(iteration): the optimizer of the current position
update_and_create(sched, it) == sched[it.count]

----------------------------------------------------------------------------
(* save_model_and_stats (bert.py 374-385) *)

\* the save issued, if any: its file name parts and the step it is filed under
save_model_and_stats(a, site, step, epoch, step_in_filename) ==
    IF ~a.no_model_save
    THEN << [site  |-> site,
             epoch |-> epoch,
             step_in_filename |-> step_in_filename,
             step  |-> step] >>
    ELSE <<>>

----------------------------------------------------------------------------
(* bert_process_data (bert.py 480-513) *)

\* labels_data = [data[label] for label in labels]
LabelsData(d) == d.labels

\* not np.any([np.any(label) for label in labels_data])
SkipBatch(labels_data) ==
    ~ \E l \in DOMAIN labels_data :
         \E p \in DOMAIN labels_data[l] : labels_data[l][p] # 0

\* session.run(stepio) and, when asked for, session.getCycleCount()
RunCalls(a, it) ==
    << Call("session.run", "", <<>>, it.count) >>
    \o (IF a.report_hw_cycle_count
        THEN << Call("session.getCycleCount", "", <<>>, it.count) >>
        ELSE <<>>)

\* hw_cycles = session.getCycleCount() if args.report_hw_cycle_count else None
HwCycles(a, out) == IF a.report_hw_cycle_count THEN Some(out.cycles) ELSE None

\* if (iteration.count % iteration.steps_per_log) == 0: iteration.report_stats()
ReportCalls(it) ==
    IF it.count % it.steps_per_log = 0 THEN report_stats(it) ELSE <<>>

\* the Iteration after lines 502-503
Reported(it) ==
    IF it.count % it.steps_per_log = 0 THEN AfterReport(it) ELSE it

\* faulty variant: the device is re-synced whether or not an update was due
OptimizerCalls_AlwaysSync(sched, it) ==
    << Call("should_update", "", <<should_update(sched, it)>>, it.count) >>
    \o (IF should_update(sched, it)
        THEN << Call("update_and_create", "", <<>>, it.count),
                Call("session.updateOptimizer", "", <<>>, it.count) >>
        ELSE <<>>)
    \o << Call("session.optimizerFromHost", "", <<>>, it.count) >>

\* lines 508-511: the query, and the optimizer pushed when an update is due
OptimizerCalls(sched, it) ==
    LET due == should_update(sched, it)
    IN  << Call("should_update", "", <<due>>, it.count) >>
        \o (IF due
            THEN << Call("update_and_create", "", <<>>, it.count),
                    Call("session.updateOptimizer", "", <<>>, it.count),
                    Call("session.optimizerFromHost", "", <<>>, it.count) >>
            ELSE <<>>)

\* faulty variant: the schedule is queried before the batch is run
BatchTrace_QueryFirst(run, stats, report, optimizer) ==
    optimizer \o run \o stats \o report

\* the statement order of a batch that is run: run, add_stats, report, optimizer
BatchTrace(run, stats, report, optimizer) ==
    run \o stats \o report \o optimizer

\* iteration.count += 1
NextCount(it) == [it EXCEPT !.count = @ + 1]

\* lines 505-513 applied to the Iteration add_stats left: the learning rate
\* of the optimizer created when an update is due, then the count
AfterOptimizer(sched, it) ==
    NextCount(IF should_update(sched, it)
              THEN [it EXCEPT !.learning_rate = update_and_create(sched, it)]
              ELSE it)

\* faulty variant: the optimizer pushed at every step
Pushed_EveryStep(sched, it) == << it.count >>

\* session.updateOptimizer(optimizer): the step whose optimizer is pushed
Pushed(sched, it) == IF should_update(sched, it) THEN << it.count >> ELSE <<>>

\* lines 488-513, given the calls of the run and what add_stats returned
ProcessedBatch(sched, run, st) ==
    [it |-> AfterOptimizer(sched, Reported(st.it)),
     calls |-> BatchTrace(run, st.scalars, ReportCalls(st.it),
                          OptimizerCalls(sched, Reported(st.it))),
     pushed |-> Pushed(sched, Reported(st.it)),
     exit |-> FALSE]

\* lines 495-498: the profile is saved and the process exits
ProfiledBatch(run, it) ==
    [it |-> it,
     calls |-> run \o << Call("gcprofile.save_popart_report", "", <<>>, it.count),
                         Call("sys.exit", "", <<>>, it.count) >>,
     pushed |-> <<>>,
     exit |-> TRUE]

\* faulty variant: the padding check is made after the batch was run
SkippedBatch_AfterRun(it) ==
    [it |-> it, calls |-> << Call("session.run", "", <<>>, it.count) >>,
     pushed |-> <<>>, exit |-> FALSE]

\* lines 484-486: the batch is all padding and the call returns
SkippedBatch(it) ==
    [it |-> it, calls |-> <<>>, pushed |-> <<>>, exit |-> FALSE]

\* the whole call: the Iteration after it, the calls it made in order, the
\* optimizer pushed to the session (if any) and whether it left by sys.exit
bert_process_data(a, it, sched, d, out) ==
    IF SkipBatch(LabelsData(d))
    THEN SkippedBatch(it)
    ELSE IF a.gc_profile
    THEN ProfiledBatch(RunCalls(a, it), it)
    ELSE ProcessedBatch(sched, RunCalls(a, it),
                        add_stats(it, out.duration, HwCycles(a, out),
                                  LabelsData(d), out.losses, out.predictions))

----------------------------------------------------------------------------
(* bert_train_loop (bert.py 615-633) *)

\* faulty variant: the step trigger tested on the count before its increment
StepSaveDue_BeforeIncrement(a, it) ==
    a.steps_per_save > 0 /\ (it.count - 1) % a.steps_per_save = 0

\* faulty variant: the step trigger without its `> 0` guard (a save at every step)
StepSaveDue_NoGuard(a, it) ==
    it.count % (IF a.steps_per_save > 0 THEN a.steps_per_save ELSE 1) = 0

\* args.steps_per_save > 0 and (iteration.count % args.steps_per_save) == 0
StepSaveDue(a, it) ==
    a.steps_per_save > 0 /\ it.count % a.steps_per_save = 0

\* args.epochs_per_save > 0 and (iteration.epoch % iteration.epochs_per_save) == 0
EpochSaveDue(a, it) ==
    a.epochs_per_save > 0 /\ it.epoch % it.epochs_per_save = 0

\* line 620: save_model_and_stats(args, session, writer, count, epoch)
StartSave(a, it) ==
    save_model_and_stats(a, "start", it.count, Some(it.epoch), FALSE)

\* faulty variant: the final save left out when the last batch already saved
EndSave_UnlessJustSaved(a, it) ==
    IF a.steps_per_save > 0 /\ it.count % a.steps_per_save = 0
    THEN <<>>
    ELSE save_model_and_stats(a, "end", it.count, None, FALSE)

\* line 633: save_model_and_stats(args, session, writer, count)
EndSave(a, it) ==
    save_model_and_stats(a, "end", it.count, None, FALSE)

\* lines 627-628, after a batch
StepSave(a, it) ==
    IF StepSaveDue(a, it)
    THEN save_model_and_stats(a, "step", it.count, Some(it.epoch), TRUE)
    ELSE <<>>

\* lines 630-631, at the end of an epoch
EpochSave(a, it) ==
    IF EpochSaveDue(a, it)
    THEN save_model_and_stats(a, "epoch", it.count, Some(it.epoch + 1), FALSE)
    ELSE <<>>

\* the state of the inference path while it is not in use
InferIdle ==
    /\ start_times = <<>>
    /\ end_times = <<>>
    /\ clock = 0
    /\ latency = [status |-> "none", rtts |-> <<>>]
    /\ realtime = FALSE

\* the state of the stand-alone statistics call while it is not in use
StatsIdle ==
    /\ stats_args = <<>>
    /\ stats_result = <<>>

\* the state of the checkpoint loader while it is not in use
LoaderIdle ==
    /\ config = <<>>
    /\ tf_installed = TRUE
    /\ is_checkpoint = TRUE
    /\ checkpoint = <<>>
    /\ reads = 0
    /\ pending = <<>>
    /\ initializers = <<>>
    /\ logged = <<>>
    /\ raised = None

\* the initial save, then the first pass of `for iteration.epoch in range(...)`
TrainStart ==
    /\ pc = "train_start"
    /\ saves' = saves \o StartSave(args, iteration)
    /\ IF iteration.start_epoch < args.epochs
       THEN /\ iteration' = [iteration EXCEPT !.epoch = iteration.start_epoch]
            /\ pc' = "train_epoch"
       ELSE /\ iteration' = iteration
            /\ pc' = "train_end"
    /\ batch_idx' = 0
    /\ UNCHANGED <<args, dataset_len, schedule, yielded, data, calls, updates,
                   appended, writer, inferVars, statsVars, loadVars>>

\* the state after bert_process_data returned r for batch d: the step save
\* of lines 627-628, unless the call left the process
AfterBatch(d, r) ==
    /\ data' = d
    /\ calls' = r.calls
    /\ writer' = writer \o ScalarKeys(r.calls)
    /\ updates' = updates \o r.pushed
    /\ iteration' = r.it
    /\ IF r.exit
       THEN /\ pc' = "exited"
            /\ saves' = saves
       ELSE /\ pc' = pc
            /\ saves' = saves \o StepSave(args, r.it)

\* one pass of `for data in dataset`: bert_process_data and the step save
TrainBatch ==
    /\ pc = "train_epoch"
    /\ batch_idx < dataset_len
    /\ \E d \in Batches(args.task), out \in EngineOutputs(args.task) :
          AfterBatch(d, bert_process_data(args, iteration, schedule, d, out))
    /\ batch_idx' = batch_idx + 1
    /\ yielded' = yielded + 1
    /\ UNCHANGED <<args, dataset_len, schedule, appended, inferVars,
                   statsVars, loadVars>>

\* the dataset is exhausted: the epoch save, then the next epoch or the end
TrainEpochEnd ==
    /\ pc = "train_epoch"
    /\ batch_idx = dataset_len
    /\ saves' = saves \o EpochSave(args, iteration)
    /\ IF iteration.epoch + 1 < args.epochs
       THEN /\ iteration' = [iteration EXCEPT !.epoch = @ + 1]
            /\ pc' = "train_epoch"
       ELSE /\ iteration' = iteration
            /\ pc' = "train_end"
    /\ batch_idx' = 0
    /\ UNCHANGED <<args, dataset_len, schedule, yielded, data, calls, updates,
                   appended, writer, inferVars, statsVars, loadVars>>

\* the final save
TrainFinish ==
    /\ pc = "train_end"
    /\ saves' = saves \o EndSave(args, iteration)
    /\ pc' = "done"
    /\ UNCHANGED <<args, dataset_len, schedule, iteration, batch_idx, yielded,
                   data, calls, updates, appended, writer, inferVars,
                   statsVars, loadVars>>

Init ==
    /\ \E c \in TrainConfigs :
          /\ args = c[1]
          /\ dataset_len = c[2]
          /\ schedule = c[3]
    /\ iteration = IterationInit(args, dataset_len,
                                 args.aggregate_metrics_over_steps)
    /\ pc = "train_start"
    /\ batch_idx = 0
    /\ yielded = 0
    /\ data = None
    /\ calls = <<>>
    /\ saves = <<>>
    /\ updates = <<>>
    /\ appended = <<>>
    /\ writer = <<>>
    /\ InferIdle
    /\ StatsIdle
    /\ LoaderIdle

Next == TrainStart \/ TrainBatch \/ TrainEpochEnd \/ TrainFinish

Spec == Init /\ [][Next]_vars

----------------------------------------------------------------------------
(* Properties of the training loop, checked under Spec *)

\* Iteration.count as __init__ set it
InitialCount == iteration.start_epoch * iteration.steps_per_epoch

\* a batch has been yielded and bert_process_data has returned for it
BatchStep == yielded' = yielded + 1

\* the contents of every rolling window
WindowContents(it) ==
    << it.durations, it.cycles, it.mlm_losses, it.nsp_losses,
       it.mlm_accuracies, it.nsp_accuracies, it.losses, it.accuracies >>

\* the positions of the calls named op in a trace
Positions(trace, op) == {i \in DOMAIN trace : trace[i].op = op}

\* C1: the step counter increases by exactly 1 for every batch the dataset
\* yields, a batch skipped as all padding included.
C1_CountPerBatch ==
    [][BatchStep /\ pc' # "exited"
          => iteration'.count = iteration.count + 1]_vars

\* C2: a batch skipped as all padding makes no call at all (no session.run,
\* no optimizer call, no scalar, no report, no schedule query), leaves every
\* rolling window and the session's optimizer as they were, and is not an
\* error.
C2_SkipIsSilent ==
    [][BatchStep /\ SkipBatch(LabelsData(data'))
          => /\ calls' = <<>>
             /\ updates' = updates
             /\ WindowContents(iteration') = WindowContents(iteration)
             /\ iteration'.learning_rate = iteration.learning_rate
             /\ pc' = pc]_vars

\* a batch was skipped after an earlier one had been recorded
C2_Witness ==
    /\ yielded > 1
    /\ SkipBatch(LabelsData(data))
    /\ calls = <<>>
    /\ iteration.durations # <<>>

\* the saves as (call site, step) pairs
SaveSteps == [i \in DOMAIN saves |-> <<saves[i].site, saves[i].step>>]

\* start save, a step save at every positive multiple of n up to c, end save
ExpectedStepSaves(n, c, finished) ==
    << <<"start", 0>> >>
    \o [k \in 1..(c \div n) |-> <<"step", k * n>>]
    \o (IF finished THEN << <<"end", c>> >> ELSE <<>>)

\* C3: with steps_per_save = N > 0, epochs_per_save <= 0, saving enabled, no
\* skipped batch and a start at step 0, the saves issued are the start save,
\* one save right after each batch that brings the count to a positive
\* multiple of N, and the end save: 2 + floor(S/N) after S batches.
C3_StepSaves ==
    ( /\ args.steps_per_save > 0
      /\ args.epochs_per_save <= 0
      /\ ~args.no_model_save
      /\ InitialCount = 0
      /\ iteration.count = yielded
      /\ pc # "train_start" )
    => /\ SaveSteps = ExpectedStepSaves(args.steps_per_save, yielded,
                                        pc = "done")
       /\ pc = "done"
            => Len(saves) = 2 + (yielded \div args.steps_per_save)

\* a finished run of 4 batches with N = 2: saves at 0, 2, 4 and the end
C3_Witness ==
    /\ pc = "done"
    /\ args.steps_per_save = 2
    /\ args.epochs_per_save <= 0
    /\ ~args.no_model_save
    /\ iteration.count = yielded
    /\ yielded = 4
    /\ Len(saves) = 4

\* C4: with saving enabled there is one save before the first batch and one
\* save after the last, whatever the periodic triggers are, also when the
\* epoch range or the dataset is empty.
C4_StartAndEndSave ==
    ~args.no_model_save
    => /\ pc # "train_start"
            => /\ saves # <<>>
               /\ saves[1].site = "start"
               /\ saves[1].step = InitialCount
       /\ Count({i \in DOMAIN saves : saves[i].site = "start"}) <= 1
       /\ pc = "train_start" => saves = <<>> /\ yielded = 0
       /\ pc = "done"
            => /\ saves[Len(saves)].site = "end"
               /\ saves[Len(saves)].step = iteration.count
               /\ Count({i \in DOMAIN saves : saves[i].site = "end"}) = 1
               /\ Count({i \in DOMAIN saves : saves[i].site = "start"}) = 1
       /\ pc # "done"
            => {i \in DOMAIN saves : saves[i].site = "end"} = {}

\* a finished run over an empty dataset that still made both saves
C4_Witness ==
    /\ pc = "done"
    /\ ~args.no_model_save
    /\ args.epochs > 0
    /\ dataset_len = 0
    /\ saves[1].site = "start"
    /\ saves[Len(saves)].site = "end"
    /\ Len(saves) >= 2

\* C5: steps_per_save <= 0 disables the step save, epochs_per_save <= 0
\* disables the epoch save, each independently; with both <= 0 a run issues
\* exactly the start save and the end save.
C5_TriggersDisabled ==
    /\ args.steps_per_save <= 0
         => {i \in DOMAIN saves : saves[i].site = "step"} = {}
    /\ args.epochs_per_save <= 0
         => {i \in DOMAIN saves : saves[i].site = "epoch"} = {}
    /\ ( /\ args.steps_per_save <= 0
         /\ args.epochs_per_save <= 0
         /\ ~args.no_model_save
         /\ pc = "done" )
         => [i \in DOMAIN saves |-> saves[i].site] = <<"start", "end">>

\* a finished run of several batches with both triggers off and two saves
C5_Witness ==
    /\ pc = "done"
    /\ args.steps_per_save <= 0
    /\ args.epochs_per_save <= 0
    /\ ~args.no_model_save
    /\ yielded >= 2
    /\ Len(saves) = 2

\* a batch has been executed at step s in this run
Executed(s) == InitialCount <= s /\ s < iteration.count

\* C7: with a step schedule the optimizer is pushed exactly once for each
\* scheduled step at which a batch was executed and never at another step,
\* whether or not batches are skipped.
C7_OncePerScheduledStep ==
    /\ \A i \in DOMAIN updates : updates[i] \in DOMAIN schedule
    /\ \A s \in DOMAIN schedule :
          Count({i \in DOMAIN updates : updates[i] = s})
             = IF Executed(s) THEN 1 ELSE 0

\* schedule {0, 2}: both updates pushed in a run that also skipped a batch
C7_Witness ==
    /\ DOMAIN schedule = {0, 2}
    /\ updates = <<0, 2>>
    /\ iteration.count < yielded
    /\ iteration.count = 3

OptimizerOps ==
    {"update_and_create", "session.updateOptimizer", "session.optimizerFromHost"}

\* the schedule query and the optimizer calls of a trace, in order
OptimizerPart(trace) ==
    SelectSeq(trace, LAMBDA c : c.op \in OptimizerOps \cup {"should_update"})

\* should_update returned true in the trace
QueryTrue(trace) ==
    \E i \in DOMAIN trace :
        trace[i].op = "should_update" /\ trace[i].value = <<TRUE>>

\* C8: update_and_create, updateOptimizer and optimizerFromHost are called
\* only in a step whose should_update returned true, there once each and in
\* that order; in every other step the session's optimizer is untouched.
C8_UpdateOnlyWhenDue ==
    [][BatchStep
          => LET q == OptimizerPart(calls')
             IN  IF QueryTrue(calls')
                 THEN /\ [i \in DOMAIN q |-> q[i].op]
                           = << "should_update", "update_and_create",
                                "session.updateOptimizer",
                                "session.optimizerFromHost" >>
                      /\ updates' = Append(updates, q[1].step)
                 ELSE /\ \A i \in DOMAIN q : q[i].op = "should_update"
                      /\ Len(q) <= 1
                      /\ updates' = updates]_vars

\* the batch executed at the scheduled step 1 pushed an optimizer
C8_Witness ==
    /\ QueryTrue(calls)
    /\ Positions(calls, "session.optimizerFromHost") # {}
    /\ updates = <<1>>

\* C9 as stated: the update-due query of a batch precedes its session.run
C9_QueryBeforeRun ==
    \A j \in Positions(calls, "session.run") :
        \E i \in Positions(calls, "should_update") : i < j

\* C9 as the code has it: a batch that is executed makes the update-due
\* query exactly once, after its session.run and after add_stats wrote its
\* scalars, with the step count the batch ran at (before the increment); a
\* skipped batch and a profiled batch make no query.
C9_QueryAfterRun ==
    /\ \A i \in Positions(calls, "should_update") :
          /\ \E j \in Positions(calls, "session.run") : j < i
          /\ \A j \in Positions(calls, "add_scalar") : j < i
          /\ calls[i].step = iteration.count - 1
    /\ Positions(calls, "session.run") # {} /\ pc # "exited"
          => Count(Positions(calls, "should_update")) = 1
    /\ Positions(calls, "session.run") = {} \/ pc = "exited"
          => Positions(calls, "should_update") = {}

\* a batch was executed and the query was made in it
C9_Witness ==
    /\ Positions(calls, "session.run") # {}
    /\ Positions(calls, "should_update") # {}
    /\ iteration.count = 2

\* the series add_stats writes in a task mode, in the order it writes them
SeriesOf(task) ==
    IF task = "PRETRAINING"
    THEN << "defaultLearningRate", "loss/MLM", "loss/NSP",
            "accuracy/MLM", "accuracy/NSP" >>
    ELSE << "defaultLearningRate", "loss", "accuracy" >>

\* what the step added to the metrics sink
NewScalars == SubSeq(writer', Len(writer) + 1, Len(writer'))

\* C17: every add_stats call of a training run writes one scalar for each
\* tracked series of the task mode and one for the learning rate (5 in
\* PRETRAINING, 3 otherwise), all of them keyed by the step count of the
\* call, and that key is greater than the key of every earlier call; a
\* batch without add_stats writes none.
C17_ScalarsPerCall ==
    [][BatchStep
          => IF Positions(calls', "add_scalar") # {}
             THEN /\ Len(NewScalars)
                       = IF args.task = "PRETRAINING" THEN 5 ELSE 3
                  /\ [i \in DOMAIN NewScalars |-> NewScalars[i].name]
                       = SeriesOf(args.task)
                  /\ \A i \in DOMAIN NewScalars :
                        NewScalars[i].step = iteration.count
                  /\ \A j \in DOMAIN writer :
                        writer[j].step < iteration.count
             ELSE writer' = writer]_vars

\* two executed PRETRAINING batches: five scalars at step 0, five at step 1
C17_Witness ==
    /\ args.task = "PRETRAINING"
    /\ Len(writer) = 10
    /\ \A i \in 1..5 : writer[i].step = 0
    /\ \A i \in 6..10 : writer[i].step = 1

\* every label of a PRETRAINING batch is the ignore value of its objective:
\* 0 for mask_labels and 2 for nsp_labels (bert_pretraining_stats)
AllIgnored(d) ==
    /\ \A p \in DOMAIN d.labels[1] : d.labels[1][p] = 0
    /\ \A p \in DOMAIN d.labels[2] : d.labels[2][p] = 2

\* C18: in PRETRAINING the most recent batch was skipped (bert_process_data
\* made no call for it) if and only if mask_labels is all 0 and nsp_labels
\* is all 2.
C18_SkipIffAllIgnored ==
    ( /\ args.task = "PRETRAINING"
      /\ data # None )
    => (calls = <<>> <=> AllIgnored(data))

\* the epochs, by index, whose pass over the dataset has ended
CompletedEpochs ==
    CASE pc = "train_start" -> {}
      [] pc \in {"train_end", "done"} ->
            iteration.start_epoch..(args.epochs - 1)
      [] OTHER -> iteration.start_epoch..(iteration.epoch - 1)

\* the numbers the end-of-epoch saves carry in their file names
EpochSaveNames ==
    {saves[i].epoch[1] : i \in {j \in DOMAIN saves : saves[j].site = "epoch"}}

\* C19: with epochs_per_save = M > 0 there is an end-of-epoch save exactly
\* for the epochs at whose end the number of completed epochs (index + 1,
\* the number in the file name) is a multiple of M.
C19_EpochSaveOnMultiples ==
    ( /\ args.epochs_per_save > 0
      /\ ~args.no_model_save )
    => EpochSaveNames
         = {e + 1 : e \in {x \in CompletedEpochs :
                              (x + 1) % args.epochs_per_save = 0}}

\* the step-triggered saves, by position in saves
StepSaves == {i \in DOMAIN saves : saves[i].site = "step"}

\* C23: with steps_per_save = N > 0 no two step-triggered saves carry the
\* same step number, whatever batches are processed and skipped.
C23_StepSaveOncePerStep ==
    args.steps_per_save > 0
    => \A i, j \in StepSaves : i # j => saves[i].step # saves[j].step

\* the windows that hold the statistics of bert_output_stats
StatsWindows(it) == Windows(it) \ {"durations", "cycles"}

\* C24: every batch that is not skipped has well-defined statistics: each
\* loss and each accuracy recorded by add_stats is a quotient with a
\* non-zero denominator (at least one position retained, total_attempted
\* not 0), for MLM and NSP in PRETRAINING and for the single objective.
C24_StatsWellDefined ==
    \A w \in StatsWindows(iteration) :
        \A i \in DOMAIN iteration[w] : iteration[w][i][2] # 0

----------------------------------------------------------------------------
(* The Iteration object driven on its own: any sequence of add_stats calls *)

\* Iteration objects of both task modes and of several capacities
IterationConfigs ==
    {<< [DefaultArgs EXCEPT !.task = t,
                            !.report_hw_cycle_count = hw,
                            !.aggregate_metrics_over_steps = rs],
        MaxBatches >> :
        t \in Tasks, hw \in BOOLEAN, rs \in {None, Some(0), Some(1), Some(3)}}

\* the batches handed to add_stats by the harness
HarnessBatches(task) ==
    IF task = "PRETRAINING"
    THEN {[labels |-> << <<0, 1>>, <<1>> >>], [labels |-> << <<1, 1>>, <<2>> >>]}
    ELSE {[labels |-> << <<0>>, <<1>> >>], [labels |-> << <<1>>, <<1>> >>]}

NoneAppended ==
    [durations |-> <<>>, cycles |-> <<>>, mlm_losses |-> <<>>,
     nsp_losses |-> <<>>, mlm_accuracies |-> <<>>, nsp_accuracies |-> <<>>,
     losses |-> <<>>, accuracies |-> <<>>]

IterationHarnessInit ==
    /\ \E c \in IterationConfigs :
          /\ args = c[1]
          /\ dataset_len = c[2]
    /\ schedule = <<>>
    /\ iteration = IterationInit(args, dataset_len,
                                 args.aggregate_metrics_over_steps)
    /\ pc = "harness"
    /\ batch_idx = 0
    /\ yielded = 0
    /\ data = None
    /\ calls = <<>>
    /\ saves = <<>>
    /\ updates = <<>>
    /\ appended = NoneAppended
    /\ writer = <<>>
    /\ InferIdle
    /\ StatsIdle
    /\ LoaderIdle

\* the values the caller knows add_stats must append, by window
Handed(log, task, duration, hw_cycles, labels, out) ==
    LET log1 == [log EXCEPT !.durations = Append(@, duration)]
        log2 == IF hw_cycles # None /\ hw_cycles[1] # 0
                THEN [log1 EXCEPT !.cycles = Append(@, hw_cycles[1])]
                ELSE log1
    IN  IF task = "PRETRAINING"
        THEN [log2 EXCEPT
                !.mlm_losses = Append(@,
                    bert_output_stats(<<labels[1]>>, <<out.losses[1]>>,
                                      <<out.predictions[1]>>, Some(0)).loss),
                !.nsp_losses = Append(@,
                    bert_output_stats(<<labels[2]>>, <<out.losses[2]>>,
                                      <<out.predictions[2]>>, Some(2)).loss),
                !.mlm_accuracies = Append(@,
                    bert_output_stats(<<labels[1]>>, <<out.losses[1]>>,
                                      <<out.predictions[1]>>, Some(0)).accuracy),
                !.nsp_accuracies = Append(@,
                    bert_output_stats(<<labels[2]>>, <<out.losses[2]>>,
                                      <<out.predictions[2]>>, Some(2)).accuracy)]
        ELSE [log2 EXCEPT
                !.losses = Append(@,
                    bert_output_stats(labels, out.losses,
                                      out.predictions, None).loss),
                !.accuracies = Append(@,
                    bert_output_stats(labels, out.losses,
                                      out.predictions, None).accuracy)]

\* the Iteration and the trace after one add_stats call
AfterAddStats(st) ==
    /\ iteration' = st.it
    /\ calls' = st.scalars
    /\ writer' = writer \o ScalarKeys(st.scalars)

\* iteration.add_stats(duration, hw_cycles, labels_data, anchors, ...)
AddStatsCall ==
    /\ pc = "harness"
    /\ yielded < MaxCalls
    /\ \E d \in HarnessBatches(args.task), out \in EngineOutputs(args.task) :
          /\ AfterAddStats(add_stats(iteration, out.duration + yielded,
                                     HwCycles(args, out), LabelsData(d),
                                     out.losses, out.predictions))
          /\ appended' = Handed(appended, args.task, out.duration + yielded,
                                HwCycles(args, out), LabelsData(d), out)
          /\ data' = d
    /\ yielded' = yielded + 1
    /\ UNCHANGED <<args, dataset_len, schedule, pc, batch_idx, saves, updates,
                   inferVars, statsVars, loadVars>>

\* iteration.report_stats()
ReportStatsCall ==
    /\ pc = "harness"
    /\ iteration' = AfterReport(iteration)
    /\ calls' = report_stats(iteration)
    /\ writer' = writer \o ScalarKeys(report_stats(iteration))
    /\ UNCHANGED <<args, dataset_len, schedule, pc, batch_idx, yielded, data,
                   saves, updates, appended, inferVars, statsVars, loadVars>>

NextIteration == AddStatsCall \/ ReportStatsCall

SpecIteration == IterationHarnessInit /\ [][NextIteration]_vars

\* the capacity the Iteration was configured with
Capacity ==
    IF args.aggregate_metrics_over_steps = None
    THEN dataset_len
    ELSE args.aggregate_metrics_over_steps[1]

\* C6: every rolling window of the task mode holds at most the configured
\* capacity (recording_steps, or steps_per_epoch when none is given) and
\* holds the most recently appended values in insertion order, the oldest
\* evicted first.
C6_RollingWindows ==
    \A w \in Windows(iteration) :
        /\ Len(iteration[w]) <= Capacity
        /\ iteration[w] = LastN(appended[w], Capacity)

\* capacity 3, five distinct durations inserted: the last three are kept
C6_Witness ==
    /\ Capacity = 3
    /\ Len(appended.durations) = 5
    /\ Count({appended.durations[i] : i \in 1..5}) = 5
    /\ iteration.durations = SubSeq(appended.durations, 3, 5)
    /\ Len(appended.losses) = 5
    /\ iteration.losses = SubSeq(appended.losses, 3, 5)

\* the step is a report_stats call
ReportStep == calls' # <<>> /\ calls'[1].op = "report_stats"

\* C16: report_stats does not mutate state: the count, the epoch, the
\* learning rate and every rolling window (every attribute of the Iteration)
\* are after the call what they were before it, and the call writes no
\* scalar to the metrics sink.
C16_ReportIsPure ==
    [][ReportStep
          => /\ iteration' = iteration
             /\ WindowContents(iteration') = WindowContents(iteration)
             /\ writer' = writer
             /\ Positions(calls', "add_scalar") = {}]_vars

\* a report made after statistics were recorded and scalars written
C16_Witness ==
    /\ calls # <<>>
    /\ calls[1].op = "report_stats"
    /\ Len(iteration.durations) >= 2
    /\ Len(writer) >= 6

----------------------------------------------------------------------------
(* Low-latency inference: create_callback_stepio, compute_latency,
   bert_process_infer_data and bert_infer_loop (bert.py 516-612, 636-689) *)

\* engine callbacks that read the timer in one step
MaxCallbacks == 4

\* tensors fed with a prefetching input callback, anchors filled per step
InputIds == {"indices", "positions"}
OutputIds == {"start_logits", "end_logits"}

\* a defaultdict(list) is the sequence of its (id, list) items in insertion
\* order; d[id].append(t) creates the item when the id is new
DictAppend(d, id, t) ==
    IF \E i \in DOMAIN d : d[i].id = id
    THEN [i \in DOMAIN d |->
             IF d[i].id = id THEN [d[i] EXCEPT !.times = Append(@, t)]
             ELSE d[i]]
    ELSE Append(d, [id |-> id, times |-> <<t>>])

\* v[-1]
Last(v) == v[Len(v)]

\* min(start_times, key=lambda k: start_times[k][-1]): the first item, in
\* insertion order, whose last time is the least (the dict is not empty)
get_timing_start_anchor(d) ==
    CHOOSE i \in DOMAIN d :
        /\ \A j \in DOMAIN d : Last(d[i].times) <= Last(d[j].times)
        /\ \A j \in 1..(i - 1) : Last(d[j].times) > Last(d[i].times)

\* max(end_times, key=lambda k: end_times[k][-1]): the first item whose last
\* time is the greatest (the dict is not empty)
get_timing_end_anchor(d) ==
    CHOOSE i \in DOMAIN d :
        /\ \A j \in DOMAIN d : Last(d[i].times) >= Last(d[j].times)
        /\ \A j \in 1..(i - 1) : Last(d[j].times) < Last(d[i].times)

Min2(a, b) == IF a <= b THEN a ELSE b

\* list(map(lambda v: v[1]-v[0], zip(starts, ends)))
Rtts(starts, ends) ==
    [i \in 1..Min2(Len(starts), Len(ends)) |-> ends[i] - starts[i]]

\* lines 565-572 for dicts that are not empty
LatencyOf(a, rtts) ==
    IF Len(rtts) # a.batches_per_step
    THEN [status |-> "RuntimeError", rtts |-> rtts]
    ELSE [status |-> "ok", rtts |-> rtts]

\* compute_latency: the statistics are taken in low-latency SQUAD only; min()
\* and max() of an empty dict raise ValueError before the count is compared
compute_latency(a, st, et) ==
    IF a.low_latency_inference /\ a.task = "SQUAD"
    THEN IF st = <<>> \/ et = <<>>
         THEN [status |-> "ValueError", rtts |-> <<>>]
         ELSE LatencyOf(a, Rtts(st[get_timing_start_anchor(st)].times,
                                et[get_timing_end_anchor(et)].times))
    ELSE [status |-> "skipped", rtts |-> <<>>]

\* the callback stepio is in use
UsesCallbacks(a) == a.low_latency_inference /\ a.task = "SQUAD"

\* repeat_count
RepeatCount(a) == IF a.synthetic_data THEN a.epochs ELSE 1

\* inference runs: low-latency SQUAD with its timing, and the plain loop
InferConfigs ==
    {<< [DefaultArgs EXCEPT !.inference = TRUE,
                            !.low_latency_inference = TRUE,
                            !.batches_per_step = bps,
                            !.realtime_scheduler = rt],
        len >> :
        bps \in {1, 2}, rt \in BOOLEAN, len \in 0..MaxBatches}
    \cup
    {<< [DefaultArgs EXCEPT !.inference = TRUE,
                            !.task = t,
                            !.low_latency_inference = (t = "PRETRAINING"),
                            !.realtime_scheduler = rt,
                            !.synthetic_data = syn,
                            !.gc_profile = gc,
                            !.epochs = e],
        len >> :
        t \in Tasks, rt \in BOOLEAN, syn \in BOOLEAN, gc \in BOOLEAN,
        e \in 0..MaxEpochs, len \in 0..MaxBatches}

InferInit ==
    /\ \E c \in InferConfigs :
          /\ args = c[1]
          /\ dataset_len = c[2]
    /\ schedule = <<>>
    /\ iteration = IterationInit(args, dataset_len,
                                 args.aggregate_metrics_over_steps)
    /\ pc = "infer_start"
    /\ batch_idx = 0
    /\ yielded = 0
    /\ data = None
    /\ calls = <<>>
    /\ saves = <<>>
    /\ updates = <<>>
    /\ appended = <<>>
    /\ writer = <<>>
    /\ InferIdle
    /\ StatsIdle
    /\ LoaderIdle

\* lines 657-674: the dicts, the stepio, enable_realtime_scheduling and the
\* first pass of `for iteration.epoch in range(repeat_count)`
InferStart ==
    /\ pc = "infer_start"
    /\ start_times' = <<>>
    /\ end_times' = <<>>
    /\ realtime' = (realtime \/ args.realtime_scheduler)
    /\ IF 0 < RepeatCount(args)
       THEN /\ iteration' = [iteration EXCEPT !.epoch = 0]
            /\ pc' = "infer_epoch"
       ELSE /\ iteration' = iteration
            /\ pc' = "infer_end"
    /\ batch_idx' = 0
    /\ UNCHANGED <<args, dataset_len, yielded, appended, trainVars, writer,
                   statsVars, loadVars, clock,
                   latency>>

\* a batch is yielded and bert_process_infer_data calls session.run
InferRunBegin ==
    /\ pc = "infer_epoch"
    /\ batch_idx < dataset_len
    /\ pc' = "infer_run"
    /\ clock' = 0
    /\ latency' = [status |-> "none", rtts |-> <<>>]
    /\ yielded' = yielded + 1
    /\ UNCHANGED <<args, dataset_len, iteration, batch_idx, appended,
                   trainVars, writer, statsVars, loadVars,
                   start_times, end_times, realtime>>

\* input_callback(id, is_prefetch), called by the engine during the run: a
\* prefetch appends the time it is made at
InputCallback ==
    /\ pc = "infer_run"
    /\ UsesCallbacks(args)
    /\ clock < MaxCallbacks
    /\ \E id \in InputIds, is_prefetch \in BOOLEAN :
          IF is_prefetch
          THEN /\ start_times' = DictAppend(start_times, id, clock)
               /\ clock' = clock + 1
          ELSE UNCHANGED <<start_times, clock>>
    /\ UNCHANGED <<args, dataset_len, iteration, pc, batch_idx, yielded,
                   appended, trainVars, writer, statsVars, loadVars,
                   end_times, latency, realtime>>

\* output_complete_callback(id), called by the engine during the run
OutputCompleteCallback ==
    /\ pc = "infer_run"
    /\ UsesCallbacks(args)
    /\ clock < MaxCallbacks
    /\ \E id \in OutputIds :
          end_times' = DictAppend(end_times, id, clock)
    /\ clock' = clock + 1
    /\ UNCHANGED <<args, dataset_len, iteration, pc, batch_idx, yielded,
                   appended, trainVars, writer, statsVars, loadVars,
                   start_times, latency, realtime>>

\* session.run raises: the exception leaves bert_infer_loop
InferRunRaises ==
    /\ pc = "infer_run"
    /\ pc' = "failed"
    /\ UNCHANGED <<args, dataset_len, iteration, batch_idx, yielded, appended,
                   trainVars, writer, inferVars, statsVars, loadVars>>

\* faulty variant: the timestamps of a step are left for the next one
Cleared_KeepsAll(d) == d

\* start_times.clear() / end_times.clear()
Cleared(d) == <<>>

\* what follows compute_latency in bert_process_infer_data and in the loop
\* body: a raised error leaves the loop, else the count and the cleared dicts
AfterLatency(lat) ==
    /\ latency' = lat
    /\ IF lat.status \in {"RuntimeError", "ValueError"}
       THEN /\ pc' = "failed"
            /\ iteration' = [iteration EXCEPT
                   !.durations = DequeAppend(@, clock + 1, iteration.maxlen)]
            /\ UNCHANGED <<start_times, end_times, batch_idx>>
       ELSE /\ pc' = "infer_epoch"
            /\ iteration' = NextCount([iteration EXCEPT
                   !.durations = DequeAppend(@, clock + 1, iteration.maxlen)])
            /\ start_times' = Cleared(start_times)
            /\ end_times' = Cleared(end_times)
            /\ batch_idx' = batch_idx + 1

\* session.run returns: lines 587-612, then add_results and the two clear()
InferRunReturns ==
    /\ pc = "infer_run"
    /\ IF args.gc_profile
       THEN /\ pc' = "exited"
            /\ UNCHANGED <<iteration, batch_idx, start_times, end_times,
                           latency>>
       ELSE AfterLatency(compute_latency(args, start_times, end_times))
    /\ UNCHANGED <<args, dataset_len, yielded, appended, trainVars, writer,
                   statsVars, loadVars, clock,
                   realtime>>

\* the dataset is exhausted: the next epoch, or the loop ends
InferEpochEnd ==
    /\ pc = "infer_epoch"
    /\ batch_idx = dataset_len
    /\ IF iteration.epoch + 1 < RepeatCount(args)
       THEN /\ iteration' = [iteration EXCEPT !.epoch = @ + 1]
            /\ pc' = "infer_epoch"
       ELSE /\ iteration' = iteration
            /\ pc' = "infer_end"
    /\ batch_idx' = 0
    /\ UNCHANGED <<args, dataset_len, yielded, appended, trainVars, writer,
                   inferVars, statsVars, loadVars>>

\* disable_realtime_scheduling, then the predictions are written
InferFinish ==
    /\ pc = "infer_end"
    /\ realtime' = (realtime /\ ~args.realtime_scheduler)
    /\ pc' = "done"
    /\ UNCHANGED <<args, dataset_len, iteration, batch_idx, yielded, appended,
                   trainVars, writer, statsVars, loadVars,
                   start_times, end_times, clock, latency>>

NextInfer ==
    \/ InferStart
    \/ InferRunBegin
    \/ InputCallback
    \/ OutputCompleteCallback
    \/ InferRunRaises
    \/ InferRunReturns
    \/ InferEpochEnd
    \/ InferFinish

SpecInfer == InferInit /\ [][NextInfer]_vars

\* the round trips a step measured: none while a dict is empty, else the
\* pairs of the two timing anchors
MeasuredRtts ==
    IF start_times = <<>> \/ end_times = <<>>
    THEN 0
    ELSE Min2(Len(start_times[get_timing_start_anchor(start_times)].times),
              Len(end_times[get_timing_end_anchor(end_times)].times))

\* C10: in low-latency SQUAD inference, whenever the number of round trips
\* measured for a step differs from batches_per_step (a step without any
\* timestamp included), compute_latency raises the RuntimeError of the
\* consistency check and returns no statistics.
C10_MismatchIsRuntimeError ==
    /\ ( /\ pc = "failed"
         /\ latency.status # "none"
         /\ MeasuredRtts # args.batches_per_step )
         => latency.status = "RuntimeError"
    /\ latency.status = "ok" => Len(latency.rtts) = args.batches_per_step

\* bert_infer_loop has been left: by its end, by an exception or by sys.exit
LoopLeft == pc \in {"done", "failed", "exited"}

\* C21: real-time scheduling enabled at the start of the loop is disabled
\* again on every way out of it, an exception from session.run and the
\* latency consistency error included: once the loop is left the process is
\* not under the real-time scheduler.
C21_RealtimeReleased == LoopLeft => ~realtime

\* every item of d is in e, with the times of d as the first of its times
Extends(d, e) ==
    \A i \in DOMAIN d :
        \E j \in DOMAIN e :
            /\ e[j].id = d[i].id
            /\ Len(e[j].times) >= Len(d[i].times)
            /\ SubSeq(e[j].times, 1, Len(d[i].times)) = d[i].times

\* the times held in a dict
TimesIn(d) == UNION {{d[i].times[k] : k \in DOMAIN d[i].times} : i \in DOMAIN d}

\* C22: with every callback of a step made before its session.run returns,
\* compute_latency reads only timestamps of its own step: both dicts are
\* empty when a session.run begins, the callbacks only append to them, and
\* the loop empties them only in the step that has just handed them to
\* compute_latency; the statistics returned are those of the dicts as the
\* callbacks of the step left them.
C22_FreshTimestamps ==
    [][ /\ (pc = "infer_epoch" /\ pc' = "infer_run")
            => start_times = <<>> /\ end_times = <<>>
        /\ (pc = "infer_run" /\ pc' = "infer_run")
            => /\ Extends(start_times, start_times')
               /\ Extends(end_times, end_times')
               /\ TimesIn(start_times') \cup TimesIn(end_times')
                     \subseteq 0..(clock' - 1)
        /\ (~Extends(start_times, start_times')
              \/ ~Extends(end_times, end_times'))
            => /\ pc = "infer_run" /\ pc' = "infer_epoch"
               /\ latency' = compute_latency(args, start_times, end_times)
               /\ start_times' = <<>> /\ end_times' = <<>>
        /\ (latency' # latency /\ latency'.status # "none")
            => latency' = compute_latency(args, start_times, end_times)
      ]_vars

\* the second step of a run measured its own round trip, after the first
\* step's timestamps were read and cleared
C22_Witness ==
    /\ UsesCallbacks(args)
    /\ yielded = 2
    /\ pc = "infer_epoch"
    /\ latency.status = "ok"
    /\ Len(latency.rtts) = args.batches_per_step
    /\ start_times = <<>>
    /\ end_times = <<>>

----------------------------------------------------------------------------
(* bert_output_stats called on its own, for any labels, losses and
   predictions (bert.py 335-363) *)

\* largest number of label arrays (objectives) in one call
MaxLabels == 2
\* positions of a label array
MaxPositions == 2

\* the arrays of one shape: every cell drawn from the values
Arrays(n, values) == [1..n -> values]

\* label lists of 1..MaxLabels arrays over the labels 0 and 1, with or
\* without an ignore value; two loss anchors and two prediction anchors
StatsInputs ==
    {[labels |-> lb, losses |-> ls, predictions |-> pr, ignore_index |-> ig] :
        lb \in UNION {[1..k -> Arrays(MaxPositions, 0..1)] : k \in 1..MaxLabels},
        ls \in {"ones", "ramp"},
        pr \in {"ones", "ramp"},
        ig \in {None, Some(0), Some(1)}}

\* the anchor arrays of a call: all 1, or l + p at position p of array l
AnchorsOf(shape, labels) ==
    [l \in DOMAIN labels |->
        [p \in DOMAIN labels[l] |-> IF shape = "ones" THEN 1 ELSE (l + p) % 2]]

StatsInit ==
    /\ stats_args \in StatsInputs
    /\ stats_result = <<>>
    /\ args = DefaultArgs
    /\ dataset_len = 0
    /\ schedule = <<>>
    /\ iteration = IterationInit(args, dataset_len,
                                 args.aggregate_metrics_over_steps)
    /\ pc = "stats"
    /\ batch_idx = 0
    /\ yielded = 0
    /\ data = None
    /\ calls = <<>>
    /\ saves = <<>>
    /\ updates = <<>>
    /\ appended = <<>>
    /\ writer = <<>>
    /\ InferIdle
    /\ LoaderIdle

\* step_loss, step_accuracy = bert_output_stats(labels, anchors, losses,
\*                                              predictions, ignore_index)
StatsCall ==
    /\ pc = "stats"
    /\ stats_result = <<>>
    /\ stats_result' =
          Some(bert_output_stats(
                  stats_args.labels,
                  AnchorsOf(stats_args.losses, stats_args.labels),
                  AnchorsOf(stats_args.predictions, stats_args.labels),
                  stats_args.ignore_index))
    /\ pc' = "done"
    /\ UNCHANGED <<args, dataset_len, schedule, iteration, batch_idx, yielded,
                   appended, writer, stats_args, trainVars, inferVars,
                   loadVars>>

NextStats == StatsCall

SpecStats == StatsInit /\ [][NextStats]_vars

\* the (label, position) pairs of a call whose label is not the ignore value
Unmasked(a) ==
    {lp \in (DOMAIN a.labels) \X (1..MaxPositions) :
        a.ignore_index = None
        \/ a.labels[lp[1]][lp[2]] # a.ignore_index[1]}

\* the positions at which at least one objective is unmasked
LivePositions(a) == {lp[2] : lp \in Unmasked(a)}

\* C11: a position at which every objective's mask is false is excluded from
\* the loss divisor and from the accuracy denominator: every position kept
\* for the per-position mean has num_losses > 0, the mean is taken over the
\* kept positions only, and the accuracy denominator is the number of
\* unmasked (label, position) pairs.
C11_MaskedOut ==
    stats_result # <<>>
    => LET a == stats_args
           n == NumLosses(a.labels, a.ignore_index)
           keep == MasterMask(a.labels, a.ignore_index)
       IN  /\ keep = LivePositions(a)
           /\ \A p \in keep :
                 /\ n[p] > 0
                 /\ n[p] = Count({lp \in Unmasked(a) : lp[2] = p})
           /\ stats_result[1].loss[2]
                = Factorial(Len(a.labels)) * Count(LivePositions(a))
           /\ stats_result[1].accuracy[2] = Count(Unmasked(a))
           /\ stats_result[1].accuracy[1] <= stats_result[1].accuracy[2]

\* two objectives: position 1 ignored by both, position 2 by one of them
C11_Witness ==
    /\ stats_result # <<>>
    /\ stats_args.labels = << <<0, 0>>, <<0, 1>> >>
    /\ stats_args.ignore_index = Some(0)
    /\ LivePositions(stats_args) = {2}
    /\ stats_result[1].accuracy[2] = 1
    /\ stats_result[1].loss[2] = 2

----------------------------------------------------------------------------
(* bert_tf_loader.py: get_tf_mapping, generate_initializers, load_tf_ckpt_data,
   load_tf_frozen_data and load_initializers_from_tf.  A tensor name is the
   sequence of its "/"-separated components; an array is its dtype and its
   rows *)

\* largest number of tensors in a checkpoint file
MaxTensors == 3
\* largest vocabulary, of the checkpoint and of the target
MaxVocab == 3
\* config.hidden_size
MaxHidden == 2

\* f"layer_{i}" and f"Layer{i}"
LayerDir(i) ==
    CASE i = 0 -> "layer_0" [] i = 1 -> "layer_1" [] i = 2 -> "layer_2"
      [] OTHER -> "layer_n"
LayerTarget(i) ==
    CASE i = 0 -> "Layer0" [] i = 1 -> "Layer1" [] i = 2 -> "Layer2"
      [] OTHER -> "LayerN"

WordEmbeddings == <<"bert", "embeddings", "word_embeddings">>
PositionEmbeddings == <<"bert", "embeddings", "position_embeddings">>
EmbeddingGamma == <<"bert", "embeddings", "LayerNorm", "gamma">>
\* tensors of a BERT checkpoint that get_tf_mapping does not list
PoolerKernel == <<"bert", "pooler", "dense", "kernel">>
GlobalStep == <<"global_step">>

EmbeddingDict == <<"Embedding", "Embedding_Dict">>
PositionalDict == <<"Embedding", "Positional_Dict">>

\* lines 20-30: the entries that do not depend on the layer
EmbeddingMapping ==
    (WordEmbeddings :> EmbeddingDict)
    @@ (PositionEmbeddings :> PositionalDict)
    @@ (<<"bert", "embeddings", "token_type_embeddings">>
            :> <<"Embedding", "Segment_Dict">>)
    @@ (EmbeddingGamma :> <<"Embedding", "Gamma">>)
    @@ (<<"bert", "embeddings", "LayerNorm", "beta">> :> <<"Embedding", "Beta">>)
    @@ (<<"cls", "predictions", "transform", "dense", "kernel">>
            :> <<"CLS", "LMPredictionW">>)
    @@ (<<"cls", "predictions", "transform", "dense", "bias">>
            :> <<"CLS", "LMPredictionB">>)
    @@ (<<"cls", "predictions", "transform", "LayerNorm", "gamma">>
            :> <<"CLS", "Gamma">>)
    @@ (<<"cls", "predictions", "transform", "LayerNorm", "beta">>
            :> <<"CLS", "Beta">>)

\* lines 32-45: the entries of one layer, by what follows the layer's directory
LayerMapping ==
    (<<"attention", "self", "query", "kernel">> :> <<"Attention", "QKV">>)
    @@ (<<"attention", "self", "key", "kernel">> :> <<"Attention", "QKV">>)
    @@ (<<"attention", "self", "value", "kernel">> :> <<"Attention", "QKV">>)
    @@ (<<"attention", "output", "dense", "kernel">> :> <<"Attention", "Out">>)
    @@ (<<"attention", "output", "LayerNorm", "gamma">>
            :> <<"Attention", "Gamma">>)
    @@ (<<"attention", "output", "LayerNorm", "beta">>
            :> <<"Attention", "Beta">>)
    @@ (<<"intermediate", "dense", "kernel">> :> <<"FF", "1", "W">>)
    @@ (<<"intermediate", "dense", "bias">> :> <<"FF", "1", "B">>)
    @@ (<<"output", "dense", "kernel">> :> <<"FF", "2", "W">>)
    @@ (<<"output", "dense", "bias">> :> <<"FF", "2", "B">>)
    @@ (<<"output", "LayerNorm", "gamma">> :> <<"FF", "Gamma">>)
    @@ (<<"output", "LayerNorm", "beta">> :> <<"FF", "Beta">>)

\* f"bert/encoder/layer_{i}/..."
LayerSource(i, rest) == <<"bert", "encoder", LayerDir(i)>> \o rest

\* get_tf_mapping(config): source name -> target name
get_tf_mapping(cfg) ==
    LET layered == {<<i, rest>> : i \in 0..(cfg.num_layers - 1),
                                  rest \in DOMAIN LayerMapping}
        names == (DOMAIN EmbeddingMapping)
                 \cup {LayerSource(x[1], x[2]) : x \in layered}
    IN  [nm \in names |->
            IF nm \in DOMAIN EmbeddingMapping
            THEN EmbeddingMapping[nm]
            ELSE LET x == CHOOSE y \in layered : LayerSource(y[1], y[2]) = nm
                 IN  <<LayerTarget(x[1])>> \o LayerMapping[x[2]]]

\* the query, key or value kernel of layer i, and the buffer they share
QkvSource(i, part) == LayerSource(i, <<"attention", "self", part, "kernel">>)
QkvTarget(i) == <<LayerTarget(i), "Attention", "QKV">>

\* array.shape
Shape(array) ==
    << Len(array.rows), IF array.rows = <<>> THEN 0 ELSE Len(array.rows[1]) >>

\* a tensor of the file: nr rows of nc cells, every cell different from every
\* other cell of the file and from 0
Matrix(code, nr, nc) ==
    [dtype |-> "float32",
     rows |-> [r \in 1..nr |-> [c \in 1..nc |-> 100 * code + 10 * r + c]]]

\* the tensor stored under a name in a file whose vocabulary has v rows
TensorOf(nm, v) ==
    [name |-> nm,
     array |->
        CASE nm = WordEmbeddings -> Matrix(1, v, MaxHidden)
          [] nm = PositionEmbeddings -> Matrix(2, MaxVocab, MaxHidden)
          [] nm = EmbeddingGamma -> Matrix(3, 1, MaxHidden)
          [] nm = PoolerKernel -> Matrix(4, MaxHidden, MaxHidden)
          [] nm = GlobalStep -> [dtype |-> "int64", rows |-> << <<7>> >>]
          [] nm = QkvSource(0, "query") -> Matrix(5, MaxHidden, MaxHidden)
          [] nm = QkvSource(0, "key") -> Matrix(6, MaxHidden, MaxHidden)
          [] nm = QkvSource(0, "value") -> Matrix(7, MaxHidden, MaxHidden)
          [] OTHER -> Matrix(8, MaxHidden, MaxHidden)]

\* the orders in which up to n of the names can be stored in a file
Orders(names, n) ==
    {o \in UNION {[1..k -> names] : k \in 0..n} :
        \A i, j \in DOMAIN o : i # j => o[i] # o[j]}

\* the file holding the names in this order
FileOf(order, v) == [i \in DOMAIN order |-> TensorOf(order[i], v)]

DefaultConfig ==
    [vocab_length |-> MaxVocab,
     hidden_size |-> MaxHidden,
     num_layers |-> 1,
     gather |-> TRUE,
     dtype |-> "float32"]

\* files that hold attention kernels in every order, some of them of a layer
\* the target does not have, and a tensor that is not mapped
QkvLoads ==
    {<< [DefaultConfig EXCEPT !.num_layers = n, !.dtype = dt],
        TRUE, TRUE, FileOf(o, MaxVocab) >> :
        n \in {1, 2}, dt \in {"float32", "float16"},
        o \in Orders({QkvSource(0, "query"), QkvSource(0, "key"),
                      QkvSource(0, "value"), QkvSource(1, "query"),
                      PoolerKernel}, MaxTensors)}

\* files whose vocabulary is smaller than, equal to and larger than the target's
VocabLoads ==
    {<< [DefaultConfig EXCEPT !.vocab_length = t, !.gather = g],
        TRUE, TRUE, FileOf(o, v) >> :
        t \in 1..MaxVocab, g \in BOOLEAN, v \in 1..MaxVocab,
        o \in Orders({WordEmbeddings, PositionEmbeddings, EmbeddingGamma,
                      GlobalStep}, MaxTensors)}

\* checkpoints and frozen graphs read with and without TensorFlow installed
DependencyLoads ==
    {<< DefaultConfig, tf, ck, FileOf(o, MaxVocab) >> :
        tf \in BOOLEAN, ck \in BOOLEAN,
        o \in Orders({WordEmbeddings, QkvSource(0, "key"), PoolerKernel},
                     MaxTensors)}

LoadConfigs == QkvLoads \cup VocabLoads \cup DependencyLoads

\* a record handed to the logger
LogRecord(level, message, about) ==
    [level |-> level, message |-> message, about |-> about]

\* lines 99-100: array.astype(config.dtype); every cell of the files is an
\* integer below 2048, which float16 holds exactly
Astype(cfg, array) ==
    IF array.dtype = "float32" /\ cfg.dtype = "float16"
    THEN [array EXCEPT !.dtype = "float16"]
    ELSE array

\* lines 90-94: the columns [start, end) of a part
qkv_tensor_range(cfg, part) ==
    CASE part = "query" -> <<0, cfg.hidden_size>>
      [] part = "key" -> <<cfg.hidden_size, cfg.hidden_size * 2>>
      [] part = "value" -> <<cfg.hidden_size * 2, cfg.hidden_size * 3>>

\* name.split("/")[-2]
QkvPart(nm) == nm[Len(nm) - 1]

\* mapping[name][-3:] == "QKV"
IsQkv(target) == target[Len(target)] = "QKV"

\* what np.empty may hold: the buffer is not initialised, every cell of it
\* is whatever the allocator left (here one of two fills)
Garbage == {-1, -2}

\* np.empty(qkv_shape, dtype=array.dtype)
NpEmpty(array, fill) ==
    [dtype |-> array.dtype,
     rows |-> [r \in 1..Shape(array)[1] |->
                  [c \in 1..(Shape(array)[2] * 3) |-> fill]]]

\* faulty variant: a new buffer for every part, the parts written before it lost
QkvBuffer_AlwaysNew(inits, target, array, fill) == NpEmpty(array, fill)

\* lines 107-111: the buffer of the target, created by the first part met
QkvBuffer(inits, target, array, fill) ==
    IF target \notin DOMAIN inits THEN NpEmpty(array, fill) ELSE inits[target]

\* initializers[target][:, start_idx:end_idx] = array
WriteColumns(buf, range, array) ==
    [buf EXCEPT !.rows =
        [r \in DOMAIN buf.rows |->
            [c \in DOMAIN buf.rows[r] |->
                IF range[1] < c /\ c <= range[2]
                THEN array.rows[r][c - range[1]]
                ELSE buf.rows[r][c]]]]

\* faulty variant: a larger table is kept whole
PadOrCrop_NoCrop(cfg, array) ==
    IF cfg.vocab_length - Len(array.rows) > 0
    THEN [array EXCEPT !.rows =
            @ \o [r \in 1..(cfg.vocab_length - Len(array.rows)) |->
                     [c \in 1..cfg.hidden_size |-> 0]]]
    ELSE array

\* lines 120-129: the table padded with zero rows or cropped to vocab_length
PadOrCrop(cfg, array) ==
    LET diff == cfg.vocab_length - Len(array.rows)
    IN  IF diff > 0
        THEN [array EXCEPT !.rows =
                @ \o [r \in 1..diff |-> [c \in 1..cfg.hidden_size |-> 0]]]
        ELSE [array EXCEPT !.rows = SubSeq(@, 1, cfg.vocab_length)]

\* lines 123-128: what the branch taken logs
VocabLog(cfg, array) ==
    IF cfg.vocab_length - Len(array.rows) > 0
    THEN << LogRecord("debug", "Padding the vocabulary", EmbeddingDict) >>
    ELSE << LogRecord("warning",
                      "Cropping the vocabulary may negatively effect performance",
                      EmbeddingDict) >>

\* np.transpose(array)
Transpose(array) ==
    [array EXCEPT !.rows =
        [c \in 1..Shape(array)[2] |->
            [r \in 1..Shape(array)[1] |-> array.rows[r][c]]]]

\* lines 130-131
Gathered(cfg, target, array) ==
    IF cfg.gather /\ target \in {EmbeddingDict, PositionalDict}
    THEN Transpose(array)
    ELSE array

\* d[k] = v
DictSet(d, k, v) == [x \in (DOMAIN d) \cup {k} |-> IF x = k THEN v ELSE d[x]]

\* lines 104-117: one part of a QKV buffer
QkvEntry(cfg, inits, nm, target, array, fill) ==
    [initializers |->
        DictSet(inits, target,
                WriteColumns(QkvBuffer(inits, target, array, fill),
                             qkv_tensor_range(cfg, QkvPart(nm)), array)),
     logged |-> << LogRecord("debug", "Initialising tensor from checkpoint", nm),
                   LogRecord("debug", "Initialising QKV component", nm) >>]

\* lines 119-135: any other tensor
PlainEntry(cfg, inits, nm, target, array) ==
    [initializers |->
        DictSet(inits, target,
                Gathered(cfg, target,
                         IF target = EmbeddingDict
                         THEN PadOrCrop(cfg, array) ELSE array)),
     logged |-> << LogRecord("debug", "Initialising tensor from checkpoint", nm) >>
                \o (IF target = EmbeddingDict
                    THEN VocabLog(cfg, array) ELSE <<>>)]

\* one pass of `for name, array in zip(map_names, load_data)`
GenerateOne(mapping, cfg, inits, nm, array, fill) ==
    IF IsQkv(mapping[nm])
    THEN QkvEntry(cfg, inits, nm, mapping[nm], Astype(cfg, array), fill)
    ELSE PlainEntry(cfg, inits, nm, mapping[nm], Astype(cfg, array))

\* faulty variant: every tensor of the file is handed on, mapped or not
MappedTensors_All(mapping, file) == file

\* [name for name in ... if name in mapping.keys()] and its data, zipped
MappedTensors(mapping, file) ==
    SelectSeq(file, LAMBDA t : t.name \in DOMAIN mapping)

\* faulty variant: the ImportError is logged and an empty result is returned
load_tf_data_Swallowed(installed, is_ckpt, mapping, file) ==
    [raised |-> None,
     names_data |-> <<>>,
     reads |-> 0,
     logged |-> << LogRecord("error", "requires TensorFlow to be installed",
                             <<>>) >>]

\* load_tf_ckpt_data / load_tf_frozen_data: the import, then the read; the
\* frozen graph is parsed whole, the checkpoint is read a tensor at a time
load_tf_data(installed, is_ckpt, mapping, file) ==
    IF ~installed
    THEN [raised |-> Some("ImportError"),
          names_data |-> <<>>,
          reads |-> 0,
          logged |-> << LogRecord("error", "requires TensorFlow to be installed",
                                  <<>>) >>]
    ELSE [raised |-> None,
          names_data |-> MappedTensors(mapping, file),
          reads |-> IF is_ckpt THEN Len(MappedTensors(mapping, file))
                    ELSE Len(file),
          logged |-> IF is_ckpt
                     THEN << LogRecord("info", "Converting TensorFlow checkpoint",
                                       <<>>) >>
                     ELSE <<>>]

LoadInit ==
    /\ \E c \in LoadConfigs :
          /\ config = c[1]
          /\ tf_installed = c[2]
          /\ is_checkpoint = c[3]
          /\ checkpoint = c[4]
    /\ reads = 0
    /\ pending = <<>>
    /\ initializers = <<>>
    /\ logged = <<>>
    /\ raised = None
    /\ args = DefaultArgs
    /\ dataset_len = 0
    /\ schedule = <<>>
    /\ iteration = IterationInit(args, dataset_len,
                                 args.aggregate_metrics_over_steps)
    /\ pc = "load_start"
    /\ batch_idx = 0
    /\ yielded = 0
    /\ data = None
    /\ calls = <<>>
    /\ saves = <<>>
    /\ updates = <<>>
    /\ appended = <<>>
    /\ writer = <<>>
    /\ InferIdle
    /\ StatsIdle

\* what the loader does not touch
LoaderFrame ==
    UNCHANGED <<args, dataset_len, iteration, batch_idx, yielded, appended,
                writer, trainVars, inferVars, statsVars,
                config, tf_installed, is_checkpoint, checkpoint>>

\* the state after load_tf_ckpt_data or load_tf_frozen_data did r
AfterLoadData(r) ==
    /\ raised' = r.raised
    /\ pending' = r.names_data
    /\ reads' = r.reads
    /\ logged' = logged \o r.logged
    /\ pc' = IF r.raised = None THEN "load_generate" ELSE "failed"

\* load_initializers_from_tf, lines 212-217: the mapping, then the data
LoadData ==
    /\ pc = "load_start"
    /\ AfterLoadData(load_tf_data(tf_installed, is_checkpoint,
                                  get_tf_mapping(config), checkpoint))
    /\ initializers' = initializers
    /\ LoaderFrame

\* the state after one pass of the loop of generate_initializers did r
AfterGenerateOne(r) ==
    /\ initializers' = r.initializers
    /\ logged' = logged \o r.logged
    /\ pending' = Tail(pending)
    /\ pc' = pc
    /\ raised' = raised

\* one pass of the loop; mapping[name] of a name that is not mapped is a
\* KeyError
GenerateStep ==
    /\ pc = "load_generate"
    /\ pending # <<>>
    /\ IF Head(pending).name \in DOMAIN get_tf_mapping(config)
       THEN \E fill \in Garbage :
               AfterGenerateOne(GenerateOne(get_tf_mapping(config), config,
                                            initializers, Head(pending).name,
                                            Head(pending).array, fill))
       ELSE /\ raised' = Some("KeyError")
            /\ pc' = "failed"
            /\ UNCHANGED <<initializers, logged, pending>>
    /\ reads' = reads
    /\ LoaderFrame

\* return initializers
LoadReturn ==
    /\ pc = "load_generate"
    /\ pending = <<>>
    /\ pc' = "done"
    /\ UNCHANGED <<reads, pending, initializers, logged, raised>>
    /\ LoaderFrame

NextLoad == LoadData \/ GenerateStep \/ LoadReturn

SpecLoad == LoadInit /\ [][NextLoad]_vars

\* the tensor a file holds under a name
Stored(nm) ==
    (CHOOSE i \in DOMAIN checkpoint : checkpoint[i].name = nm)

\* the names of the file, and those of them the loop has dealt with
FileNames == {checkpoint[i].name : i \in DOMAIN checkpoint}
PendingNames == {pending[i].name : i \in DOMAIN pending}
Processed ==
    IF pc \in {"load_generate", "done"}
    THEN (FileNames \cap DOMAIN get_tf_mapping(config)) \ PendingNames
    ELSE {}

\* the first column, counted from 0, of the part in the wide buffer
PartOffset(part) ==
    CASE part = "query" -> 0
      [] part = "key" -> config.hidden_size
      [] part = "value" -> 2 * config.hidden_size

QkvParts == {"query", "key", "value"}

\* C12: whatever the order in which the query, key and value kernels of a
\* layer are met, the buffer exists as soon as the first of them was
\* processed, is H rows by 3H columns, and holds each processed part in its
\* own columns: query in [0, H), key in [H, 2H), value in [2H, 3H); once the
\* three were processed the buffer is the same for all six orders.
C12_QkvOrderIndependent ==
    \A i \in 0..(config.num_layers - 1) :
        LET parts == {q \in QkvParts : QkvSource(i, q) \in Processed}
        IN  parts # {}
            => /\ QkvTarget(i) \in DOMAIN initializers
               /\ Shape(initializers[QkvTarget(i)])
                    = <<config.hidden_size, 3 * config.hidden_size>>
               /\ \A q \in parts :
                     initializers[QkvTarget(i)].dtype
                       = Astype(config,
                                checkpoint[Stored(QkvSource(i, q))].array).dtype
               /\ \A q \in parts :
                     \A r, c \in 1..config.hidden_size :
                        initializers[QkvTarget(i)].rows[r][PartOffset(q) + c]
                          = checkpoint[Stored(QkvSource(i, q))].array.rows[r][c]

\* the file stores value, then query, then key, and the buffer is complete
C12_Witness ==
    /\ pc = "done"
    /\ [i \in DOMAIN checkpoint |-> checkpoint[i].name]
         = << QkvSource(0, "value"), QkvSource(0, "query"), QkvSource(0, "key") >>
    /\ initializers[QkvTarget(0)].rows[1]
         = checkpoint[2].array.rows[1] \o checkpoint[3].array.rows[1]
           \o checkpoint[1].array.rows[1]

\* the rows of zeros a table of the hidden size is padded with
ZeroRows(n) == [r \in 1..n |-> [c \in 1..config.hidden_size |-> 0]]

\* the number of cells of an array
Cells(array) == Shape(array)[1] * Shape(array)[2]

\* the word-embedding table of the file, once the loop has dealt with it
WordTableDone == WordEmbeddings \in Processed

\* table holds the first T entries of the file's table, padded with zero
\* entries when the file has fewer
ResizedTo(table, source, t) ==
    LET v == Len(source.rows)
    IN  /\ Len(table.rows) = t
        /\ t > v => /\ SubSeq(table.rows, 1, v) = source.rows
                    /\ SubSeq(table.rows, v + 1, t) = ZeroRows(t - v)
        /\ t <= v => table.rows = SubSeq(source.rows, 1, t)

\* the mapped tensors, other than the word-embedding table and the attention
\* kernels, that the loop has dealt with
OtherProcessed ==
    {nm \in Processed :
        nm # WordEmbeddings /\ ~IsQkv(get_tf_mapping(config)[nm])}

\* C13 as stated: the table that is output has exactly T rows (the first V
\* those of the file and the rest zero, or the first T of the file), and no
\* other tensor changes its size.
C13_TableHasTRows ==
    /\ WordTableDone
         => ResizedTo(initializers[EmbeddingDict],
                      checkpoint[Stored(WordEmbeddings)].array,
                      config.vocab_length)
    /\ \A nm \in OtherProcessed :
          Cells(initializers[get_tf_mapping(config)[nm]])
            = Cells(checkpoint[Stored(nm)].array)

\* C13 as the code has it: the table that is output holds exactly T entries
\* of H values, as T rows without the "gather" custom op and as T columns
\* (the transpose) with it; the first V entries are those of the file and
\* the rest zero when T > V, the entries are the first T of the file when
\* T <= V; no other tensor is padded or cropped: the position table is
\* transposed under "gather" and every other one is passed on as it is.
C13_VocabResized ==
    /\ WordTableDone
         => /\ ResizedTo(IF config.gather
                         THEN Transpose(initializers[EmbeddingDict])
                         ELSE initializers[EmbeddingDict],
                         checkpoint[Stored(WordEmbeddings)].array,
                         config.vocab_length)
            /\ Shape(initializers[EmbeddingDict])
                 = IF config.gather
                   THEN <<config.hidden_size, config.vocab_length>>
                   ELSE <<config.vocab_length, config.hidden_size>>
    /\ \A nm \in OtherProcessed :
          initializers[get_tf_mapping(config)[nm]].rows
            = IF config.gather /\ nm = PositionEmbeddings
              THEN Transpose(checkpoint[Stored(nm)].array).rows
              ELSE checkpoint[Stored(nm)].array.rows

\* a file of 1 entry padded to 3 and output transposed, next to a position
\* table that kept its cells
C13_Witness ==
    /\ pc = "done"
    /\ config.gather
    /\ WordTableDone
    /\ PositionEmbeddings \in Processed
    /\ Len(checkpoint[Stored(WordEmbeddings)].array.rows) = 1
    /\ config.vocab_length = 3
    /\ Shape(initializers[EmbeddingDict]) = <<config.hidden_size, 3>>
    /\ initializers[EmbeddingDict].rows[1][2] = 0

\* the target names of the mapped names the file holds
MappedTargets ==
    {get_tf_mapping(config)[nm] :
        nm \in FileNames \cap DOMAIN get_tf_mapping(config)}

\* the loop of generate_initializers takes a step
GenerateStepTaken == pc = "load_generate" /\ Len(pending') < Len(pending)

\* C14: a tensor of the file whose name is not in the mapping table is
\* ignored: it is never handed to generate_initializers, raises no error and
\* logs nothing; each pass of the loop sets the entry of the processed
\* name's target and no other entry; the keys of the mapping returned are
\* exactly the targets of the mapped names the file holds.
C14_UnmappedIgnored ==
    [][ /\ tf_installed => raised' = None /\ pc' # "failed"
        /\ \A i \in DOMAIN pending' :
              pending'[i].name \in DOMAIN get_tf_mapping(config)
        /\ \A i \in DOMAIN logged' :
              logged'[i].about # <<>>
                 => logged'[i].about \in
                       (DOMAIN get_tf_mapping(config)) \cup MappedTargets
        /\ GenerateStepTaken
              => LET t == get_tf_mapping(config)[Head(pending).name]
                 IN  /\ DOMAIN initializers' = (DOMAIN initializers) \cup {t}
                     /\ \A k \in DOMAIN initializers :
                           k # t => initializers'[k] = initializers[k]
        /\ pc' = "done" => DOMAIN initializers' = MappedTargets ]_vars

\* a file with an unmapped tensor between two mapped ones, loaded to the end
C14_Witness ==
    /\ pc = "done"
    /\ Len(checkpoint) = 3
    /\ checkpoint[2].name = PoolerKernel
    /\ Cardinality(DOMAIN initializers) = 2
    /\ raised = None

\* C15: without TensorFlow installed the call fails with ImportError, from
\* a checkpoint as from a frozen graph, before any tensor of the file is
\* read and before any entry is made; it never returns a mapping.
C15_ImportErrorFirst ==
    ~tf_installed
    => /\ pc \in {"load_start", "failed"}
       /\ reads = 0
       /\ pending = <<>>
       /\ initializers = <<>>
       /\ pc = "failed"
            => /\ raised = Some("ImportError")
               /\ [i \in DOMAIN logged |-> logged[i].level] = <<"error">>
       /\ pc = "load_start" => raised = None /\ logged = <<>>

\* a frozen graph holding mapped tensors, and the call has failed
C15_Witness ==
    /\ ~tf_installed
    /\ ~is_checkpoint
    /\ pc = "failed"
    /\ raised = Some("ImportError")
    /\ WordEmbeddings \in FileNames
    /\ reads = 0

\* the crop warning is among the records logged
CropWarned ==
    \E i \in DOMAIN logged :
        /\ logged[i].level = "warning"
        /\ logged[i].message
             = "Cropping the vocabulary may negatively effect performance"

\* C20: the crop warning is logged exactly when the vocabulary of the file,
\* V, exceeds the target's, T; with V <= T (V = T included) there is none,
\* and a difference of the sizes is never an error.
C20_CropWarningIffLarger ==
    /\ WordTableDone
         => (CropWarned
               <=> Len(checkpoint[Stored(WordEmbeddings)].array.rows)
                     > config.vocab_length)
    /\ ~WordTableDone => ~CropWarned
    /\ tf_installed => raised = None

====
